---- MODULE Spec2Model ----
(***************************************************************************)
(* A model of run.py: the batch pipeline of process_video.                 *)
(*                                                                         *)
(* One job is modelled from the point where get_video_info has returned a  *)
(* positive duration.  The main thread plans the batches, submits them to  *)
(* a ThreadPoolExecutor, collects the futures with as_completed, stops the *)
(* reporter, joins the decoupled reassembly threads, writes the segment    *)
(* list, concatenates and merges.  Every batch has a worker                *)
(* (process_batch), a progress poller (poll_progress) and, when the pool   *)
(* size is 1, a reassembly thread (do_reassembly).  The reporter           *)
(* (progress_bar) reads the counters under progress_lock.                  *)
(*                                                                         *)
(* External processes (ffmpeg, the upscaling engine) are inputs: each run  *)
(* ends with success or failure, chosen nondeterministically.  Times are   *)
(* whole ticks, so that ceil and min are exact.                            *)
(***************************************************************************)
EXTENDS Integers, Sequences, FiniteSets, TLC

\* ------------------------------------------------------------------ bounds
MaxDuration == 2     \* the probed duration ranges over 1..MaxDuration
MaxBatchSize == 2    \* BATCH_SIZE ranges over 0..MaxBatchSize
MaxPool == 2         \* MAX_CONCURRENT_BATCHES ranges over 1..MaxPool
MaxFrames == 2       \* frames one extraction can produce: 0..MaxFrames
PlanMaxDuration == 12  \* the planner alone: D in 1..PlanMaxDuration
PlanMaxBatchSize == 5  \* the planner alone: L in 0..PlanMaxBatchSize
MaxFiles == 2        \* the reassembly alone: frame files in the directory
MaxStemLen == 2      \* the reassembly alone: digits of a frame file's number
MaxFps == 2          \* the reassembly alone: output_fps in 1..MaxFps
MaxVideos == 2       \* main's loop: the input folder holds 1..MaxVideos files

\* -------------------------------------------------------- program constants
max_attempts == 3    \* process_batch: max_attempts = 3
MinFrames == 2       \* process_batch: len(extracted_frames) < 2

VARIABLES
    duration,                \* get_video_info's duration, in ticks (> 0)
    BATCH_SIZE,              \* configuration: batch length, 0 = whole video
    MAX_CONCURRENT_BATCHES,  \* configuration: pool size
    mainPc,                  \* process_video's position
    batch_index,             \* the submit loop's index
    spec,                    \* per batch: the arguments submitted
    worker,                  \* per batch: process_batch's locals and position
    poller,                  \* per batch: poll_progress's locals and position
    reasm,                   \* per batch: do_reassembly's thread
    fs,                      \* per batch: the temporary files and directories
    doneOrder,               \* the futures in the order they completed
    collected,               \* the futures as_completed has yielded, in order
    segment_files,           \* the segment table
    join_index,              \* the deferred-join loop's index
    frames_processed,        \* frames_processed[0]
    batches_completed,       \* batches_completed[0]
    progress_lock,           \* TRUE while some thread holds progress_lock
    progress_done,           \* the reporter's stop event
    reporter,                \* progress_bar's position and what it last read
    job,                     \* the job's files, concat list and return value
    ghost,                   \* history: counts of what happened
    plan,                    \* the planner checked alone (SpecPlan)
    reassembly,              \* one reassembly followed frame by frame
                             \* (SpecFrames)
    probe,                   \* get_video_info's locals and position (SpecRun)
    video,                   \* process_video's locals for main's current
                             \* video (SpecRun)
    main_loop                \* main's locals and position (SpecRun)

vars == <<duration, BATCH_SIZE, MAX_CONCURRENT_BATCHES, mainPc, batch_index,
          spec, worker, poller, reasm, fs, doneOrder, collected,
          segment_files, join_index, frames_processed, batches_completed,
          progress_lock, progress_done, reporter, job, ghost, plan,
          reassembly, probe, video, main_loop>>

\* ----------------------------------------------------------- batch planning
Min(a, b) == IF a < b THEN a ELSE b

\* math.ceil(duration / BATCH_SIZE) for positive integers
Ceil(a, b) == (a + b - 1) \div b

\* mutant: batch_duration is BATCH_SIZE also when BATCH_SIZE is 0
BatchDuration_NoZeroCase(D, L) == L

\* batch_duration: BATCH_SIZE, or the whole duration when BATCH_SIZE is 0
BatchDuration(D, L) == IF L = 0 THEN D ELSE L

\* num_batches
NumBatches(D, L) == IF L = 0 THEN 1 ELSE Ceil(D, L)

\* start_time_batch = batch_index * batch_duration
StartTimeBatch(i, D, L) == i * BatchDuration(D, L)

\* mutant: the last batch is not clamped to the remainder
CurrentDuration_NoClamp(i, D, L) == BatchDuration(D, L)

\* current_duration = min(batch_duration, duration - start_time_batch)
CurrentDuration(i, D, L) ==
    Min(BatchDuration(D, L), D - StartTimeBatch(i, D, L))

num_batches == NumBatches(duration, BATCH_SIZE)

MaxBatches == MaxDuration
Slots == 0 .. (MaxBatches - 1)
Batches == 0 .. (num_batches - 1)

\* ------------------------------------------------------------ initial state
NoSpec == [start |-> 0, dur |-> 0]

\* process_batch before it is submitted
NoWorker == [pc |-> "unsubmitted", extracted |-> 0, attempt |-> 0,
             success |-> FALSE, tmp |-> 0, result |-> "pending"]

\* poll_progress before poll_thread.start()
NoPoller == [pc |-> "off", last_count |-> 0, current_count |-> 0,
             delta |-> 0, tmp |-> 0, event |-> FALSE]

\* do_reassembly before reassembly_thread.start(); result is result_container[0]
NoReasm == [pc |-> "off", result |-> "None"]

\* progress_bar when its thread starts: nothing was read or printed yet
NoReport == [pc |-> "check", current |-> 0, batches |-> 0, eta |-> "none"]

\* the batch's temporary files: nothing exists
NoFiles == [extraction_dir |-> FALSE, processed_dir |-> FALSE,
            reassembly_dir |-> FALSE, frames |-> 0, frames_txt |-> FALSE,
            segment |-> FALSE, placeholder |-> FALSE, placeholder_dur |-> 0]

NoJob == [converted_video |-> "original", source_exists |-> TRUE,
          converted_exists |-> FALSE,
          concat_list |-> << >>, list_written |-> FALSE, list_file |-> FALSE,
          concat |-> "not run", merge |-> "not run", no_audio |-> FALSE,
          output |-> FALSE, ret |-> "running"]

\* the job of a video that convert_if_needed remuxed or re-encoded:
\* converted_video is the converted file, not video_file
ConvertedJob == [NoJob EXCEPT !.converted_video = "converted",
                              !.converted_exists = TRUE]

NoGhost == [delta_sum |-> 0,
            staggers |-> 0,
            engine_calls |-> [b \in Slots |-> 0],
            upscaled |-> [b \in Slots |-> 0],
            submits |-> [b \in Slots |-> 0],
            starts |-> [b \in Slots |-> 0],
            slot_writes |-> [b \in Slots |-> 0],
            slot_writer |-> [b \in Slots |-> -1],
            joins |-> [b \in Slots |-> 0],
            counted |-> [b \in Slots |-> 0],
            polled |-> [b \in Slots |-> 0],
            seen |-> [b \in Slots |-> 0]]

NoPlan == [D |-> 0, L |-> 0, i |-> 0, specs |-> << >>]

\* the reassembly before it starts: the directory `dir` holds no frame file
NoReassembly == [pc |-> "off", decoupled |-> FALSE, output_fps |-> 1,
                 dir |-> {}, frame_files |-> << >>, frames |-> << >>,
                 lines |-> << >>, placeholder_failed |-> FALSE,
                 segment |-> FALSE, result |-> "pending"]

NoToken == [kind |-> "none"]

\* get_video_info before it is called
NoProbe == [pc |-> "off", fps_str |-> NoToken, duration_str |-> NoToken,
            failed |-> "none", queries |-> 0,
            ret |-> [fps |-> 0, duration |-> 0, time_base |-> <<0, 1>>]]

\* process_video before it is called
NoVideo == [pc |-> "off", ext |-> "", fps |-> 0, duration |-> 0,
            converted_video |-> "none", tool |-> "none", encode_fps |-> 0,
            converted_exists |-> FALSE, planned |-> FALSE,
            submitted |-> FALSE, reporter_started |-> FALSE,
            failed |-> "none", output |-> FALSE, ret |-> "pending"]

\* main before the loop over video_files
NoMain == [pc |-> "off", total_videos |-> 0, i |-> 0, processed_videos |-> 0,
           results |-> << >>]

Init ==
    /\ duration \in 1 .. MaxDuration
    /\ BATCH_SIZE \in 0 .. MaxBatchSize
    /\ MAX_CONCURRENT_BATCHES \in 1 .. MaxPool
    /\ mainPc = "stagger"
    /\ batch_index = 0
    /\ spec = [b \in Slots |-> NoSpec]
    /\ worker = [b \in Slots |-> NoWorker]
    /\ poller = [b \in Slots |-> NoPoller]
    /\ reasm = [b \in Slots |-> NoReasm]
    /\ fs = [b \in Slots |-> NoFiles]
    /\ doneOrder = << >>
    /\ collected = << >>
    /\ segment_files = [b \in Slots |-> "None"]
    /\ join_index = 0
    /\ frames_processed = 0
    /\ batches_completed = 0
    /\ progress_lock = FALSE
    /\ progress_done = FALSE
    /\ reporter = NoReport
    /\ job \in {NoJob, ConvertedJob}
    /\ ghost = NoGhost
    /\ plan = NoPlan
    /\ reassembly = NoReassembly
    /\ probe = NoProbe
    /\ video = NoVideo
    /\ main_loop = NoMain

\* ---------------------------------------------------------- variable groups
runVars == <<probe, video, main_loop>>
cfgVars == <<duration, BATCH_SIZE, MAX_CONCURRENT_BATCHES, plan, reassembly,
             runVars>>
mainVars == <<mainPc, batch_index, collected, segment_files, join_index, job>>
progVars == <<frames_processed, batches_completed, progress_lock,
              progress_done, reporter>>

\* ------------------------------------------------------- the progress lock
\* mutant: the counters are updated without the lock
CanAcquire_NoLock == TRUE

\* `with progress_lock:` is entered only while no thread holds the lock
CanAcquire == ~progress_lock

\* -------------------------------------------------- the thread pool (main)
\* the number of process_batch invocations executing
Running == Cardinality({b \in Slots :
              worker[b].pc \notin {"unsubmitted", "queued", "returned", "raised"}})

\* mutant: a thread per submitted task, whatever max_workers
PoolHasIdleWorker_Unbounded == TRUE

\* ThreadPoolExecutor(max_workers=MAX_CONCURRENT_BATCHES): a queued task is
\* taken only by an idle pool thread
PoolHasIdleWorker == Running < MAX_CONCURRENT_BATCHES

\* mutant: no wait before the first batch, whose pool thread is idle anyway
StaggerWaits_NotFirst(i) == IF i = 0 THEN 0 ELSE 1

\* the stagger waits made before the submission of batch i: the sleep is the
\* first statement of the loop's body, under no condition
StaggerWaits(i) == 1

\* time.sleep(STAGGER_DELAY) at the top of the submit loop's body
Stagger ==
    /\ mainPc = "stagger"
    /\ batch_index < num_batches
    /\ mainPc' = "submit"
    /\ ghost' = [ghost EXCEPT !.staggers = @ + StaggerWaits(batch_index)]
    /\ UNCHANGED <<cfgVars, batch_index, collected, segment_files, join_index,
                   job, spec, worker, poller, reasm, fs, doneOrder, progVars>>

\* executor.submit(process_batch, ..., start_time_batch, current_duration, ...)
Submit ==
    /\ mainPc = "submit"
    /\ spec' = [spec EXCEPT ![batch_index] =
                  [start |-> StartTimeBatch(batch_index, duration, BATCH_SIZE),
                   dur |-> CurrentDuration(batch_index, duration, BATCH_SIZE)]]
    /\ worker' = [worker EXCEPT ![batch_index].pc = "queued"]
    /\ ghost' = [ghost EXCEPT !.submits[batch_index] = @ + 1]
    /\ batch_index' = batch_index + 1
    /\ mainPc' = IF batch_index + 1 < num_batches THEN "stagger" ELSE "collect"
    /\ UNCHANGED <<cfgVars, collected, segment_files, join_index, job, poller,
                   reasm, fs, doneOrder, progVars>>

\* a pool thread takes the oldest queued task and calls process_batch, which
\* creates its two directories
StartWorker(b) ==
    /\ worker[b].pc = "queued"
    /\ \A c \in Slots : worker[c].pc = "queued" => b <= c
    /\ PoolHasIdleWorker
    /\ worker' = [worker EXCEPT ![b].pc = "extract"]
    /\ fs' = [fs EXCEPT ![b].extraction_dir = TRUE, ![b].processed_dir = TRUE]
    /\ ghost' = [ghost EXCEPT !.starts[b] = @ + 1]
    /\ UNCHANGED <<cfgVars, mainVars, spec, poller, reasm, doneOrder, progVars>>

\* ------------------------------------------------- process_batch (a worker)
\* the worker returns `res`: its future completes
Returned(w, b, res) == [w EXCEPT ![b].pc = "returned", ![b].result = res]

\* shutil.rmtree(extraction_dir); shutil.rmtree(processed_dir)
RemoveDirs(f, b) == [f EXCEPT ![b].extraction_dir = FALSE,
                              ![b].processed_dir = FALSE, ![b].frames = 0]

\* the placeholder clip: color=...:d={duration}, written to placeholder_segment
MakePlaceholder(f, b) == [f EXCEPT ![b].placeholder = TRUE,
                                   ![b].placeholder_dur = spec[b].dur]

\* mutant: only an empty extraction takes the placeholder path
TooFewFrames_OffByOne(k) == k < MinFrames - 1

\* if len(extracted_frames) < 2
TooFewFrames(k) == k < MinFrames

\* the extraction: ffmpeg leaves k frames (a CalledProcessError is logged and
\* the frames are counted all the same); then the frame check, which either
\* turns to the placeholder or starts the poller and the engine's first run.
\* Any other exception of subprocess.run (OSError) leaves process_batch.
Extract(b) ==
    /\ worker[b].pc = "extract"
    /\ \E k \in 0 .. MaxFrames, oserror \in BOOLEAN :
         IF oserror
         THEN /\ k = 0
              /\ worker' = [worker EXCEPT ![b].pc = "raised",
                                          ![b].result = "raised"]
              /\ doneOrder' = Append(doneOrder, b)
              /\ UNCHANGED <<poller, ghost>>
         ELSE IF TooFewFrames(k)
         THEN /\ worker' = [worker EXCEPT ![b].pc = "placeholder",
                                          ![b].extracted = k]
              /\ UNCHANGED <<poller, ghost, doneOrder>>
         ELSE /\ worker' = [worker EXCEPT ![b].pc = "engine",
                                          ![b].extracted = k]
              /\ poller' = [poller EXCEPT ![b].pc = "check"]
              /\ ghost' = [ghost EXCEPT !.engine_calls[b] = @ + 1]
              /\ UNCHANGED doneOrder
    /\ UNCHANGED <<cfgVars, mainVars, spec, reasm, fs, progVars>>

\* too few frames: the placeholder is generated, the directories are removed
\* and update_progress(len(extracted_frames)) is called; when the generation
\* fails the worker returns None
PlaceholderGate(b) ==
    /\ worker[b].pc = "placeholder"
    /\ \E ok \in BOOLEAN :
         IF ok
         THEN /\ fs' = RemoveDirs(MakePlaceholder(fs, b), b)
              /\ worker' = [worker EXCEPT ![b].pc = "upd_acquire"]
              /\ ghost' = [ghost EXCEPT !.delta_sum = @ + worker[b].extracted]
              /\ UNCHANGED doneOrder
         ELSE /\ worker' = Returned(worker, b, "None")
              /\ doneOrder' = Append(doneOrder, b)
              /\ UNCHANGED <<fs, ghost>>
    /\ UNCHANGED <<cfgVars, mainVars, spec, poller, reasm, progVars>>

\* update_progress, entered by the worker: `with progress_lock:` and the read
\* of frames_processed[0]
WorkerUpdAcquire(b) ==
    /\ worker[b].pc = "upd_acquire"
    /\ CanAcquire
    /\ progress_lock' = TRUE
    /\ worker' = [worker EXCEPT ![b].pc = "upd_write",
                                ![b].tmp = frames_processed]
    /\ UNCHANGED <<cfgVars, mainVars, spec, poller, reasm, fs, doneOrder,
                   frames_processed, batches_completed, progress_done,
                   reporter, ghost>>

\* the write of frames_processed[0] += delta, the release of the lock, and
\* `return placeholder_segment`
WorkerUpdWrite(b) ==
    /\ worker[b].pc = "upd_write"
    /\ frames_processed' = worker[b].tmp + worker[b].extracted
    /\ progress_lock' = FALSE
    /\ worker' = Returned([worker EXCEPT ![b].tmp = 0], b, "placeholder")
    /\ doneOrder' = Append(doneOrder, b)
    /\ UNCHANGED <<cfgVars, mainVars, spec, poller, reasm, fs,
                   batches_completed, progress_done, reporter, ghost>>

\* the engine writes one more upscaled frame into processed_dir
EngineWrite(b) ==
    /\ worker[b].pc = "engine"
    /\ fs[b].frames < worker[b].extracted
    /\ fs' = [fs EXCEPT ![b].frames = @ + 1]
    /\ UNCHANGED <<cfgVars, mainVars, spec, worker, poller, reasm, doneOrder,
                   progVars, ghost>>

\* subprocess.run(cmd_esrgan) returns 0: success = True, the loop ends and
\* progress_event.set() follows
EngineSucceed(b) ==
    /\ worker[b].pc = "engine"
    /\ worker' = [worker EXCEPT ![b].pc = "join_poller", ![b].success = TRUE]
    /\ poller' = [poller EXCEPT ![b].event = TRUE]
    /\ ghost' = [ghost EXCEPT !.upscaled[b] = fs[b].frames]
    /\ UNCHANGED <<cfgVars, mainVars, spec, reasm, fs, doneOrder, progVars>>

\* mutant: the engine is given up one attempt early
MayRetry_OneShort(attempt) == attempt < max_attempts - 1

\* mutant: the engine is run once more than max_attempts allows
MayRetry_OneMore(attempt) == attempt <= max_attempts

\* whether the retry loop runs the engine again: attempt < max_attempts
MayRetry(attempt) == attempt < max_attempts

\* TimeoutExpired or CalledProcessError: attempt += 1; the loop runs the engine
\* again while attempt < max_attempts, and otherwise ends with
\* progress_event.set()
EngineFail(b) ==
    /\ worker[b].pc = "engine"
    /\ IF MayRetry(worker[b].attempt + 1)
       THEN /\ worker' = [worker EXCEPT ![b].attempt = @ + 1]
            /\ ghost' = [ghost EXCEPT !.engine_calls[b] = @ + 1]
            /\ UNCHANGED poller
       ELSE /\ worker' = [worker EXCEPT ![b].attempt = @ + 1,
                                        ![b].pc = "join_poller"]
            /\ poller' = [poller EXCEPT ![b].event = TRUE]
            /\ ghost' = [ghost EXCEPT !.upscaled[b] = fs[b].frames]
    /\ UNCHANGED <<cfgVars, mainVars, spec, reasm, fs, doneOrder, progVars>>

\* subprocess.run(cmd_esrgan) raises an exception that the loop does not catch
\* (OSError: the engine's binary cannot be launched): it leaves process_batch
\* before progress_event.set(), so the poller is neither stopped nor joined
EngineRaise(b) ==
    /\ worker[b].pc = "engine"
    /\ worker' = [worker EXCEPT ![b].pc = "raised", ![b].result = "raised"]
    /\ doneOrder' = Append(doneOrder, b)
    /\ UNCHANGED <<cfgVars, mainVars, spec, poller, reasm, fs, progVars, ghost>>

\* poll_thread.join()
JoinPoller(b) ==
    /\ worker[b].pc = "join_poller"
    /\ poller[b].pc = "done"
    /\ worker' = [worker EXCEPT ![b].pc = "after_upscale"]
    /\ UNCHANGED <<cfgVars, mainVars, spec, poller, reasm, fs, doneOrder,
                   progVars, ghost>>

\* if not success: the placeholder is generated and the directories removed,
\* or, when the generation fails, None is returned
PlaceholderExhausted(b) ==
    /\ worker[b].pc = "after_upscale"
    /\ ~worker[b].success
    /\ \E ok \in BOOLEAN :
         IF ok
         THEN /\ fs' = RemoveDirs(MakePlaceholder(fs, b), b)
              /\ worker' = Returned(worker, b, "placeholder")
         ELSE /\ worker' = Returned(worker, b, "None")
              /\ UNCHANGED fs
    /\ doneOrder' = Append(doneOrder, b)
    /\ UNCHANGED <<cfgVars, mainVars, spec, poller, reasm, progVars, ghost>>

\* mutant: the reassembly is handed to a thread whatever the pool size
Decoupled_Always == TRUE

\* if MAX_CONCURRENT_BATCHES == 1
Decoupled == MAX_CONCURRENT_BATCHES = 1

\* the decoupled reassembly: processed_dir is moved to reassembly_dir, the
\* reassembly thread is started, extraction_dir is removed and the worker
\* returns (result_container, reassembly_thread)
Decouple(b) ==
    /\ worker[b].pc = "after_upscale"
    /\ worker[b].success
    /\ Decoupled
    /\ fs' = [fs EXCEPT ![b].processed_dir = FALSE, ![b].reassembly_dir = TRUE,
                        ![b].extraction_dir = FALSE]
    /\ reasm' = [reasm EXCEPT ![b].pc = "glob"]
    /\ worker' = Returned(worker, b, "deferred")
    /\ doneOrder' = Append(doneOrder, b)
    /\ UNCHANGED <<cfgVars, mainVars, spec, poller, progVars, ghost>>

\* the reassembly in the worker: with no processed frame the placeholder is
\* generated (and update_progress called) or None returned; otherwise the frame
\* list file is written
ReassembleList(b) ==
    /\ worker[b].pc = "after_upscale"
    /\ worker[b].success
    /\ ~Decoupled
    /\ IF fs[b].frames = 0
       THEN \E ok \in BOOLEAN :
              IF ok
              THEN /\ fs' = RemoveDirs(MakePlaceholder(fs, b), b)
                   /\ worker' = [worker EXCEPT ![b].pc = "upd_acquire"]
                   /\ ghost' = [ghost EXCEPT
                                  !.delta_sum = @ + worker[b].extracted]
                   /\ UNCHANGED doneOrder
              ELSE /\ worker' = Returned(worker, b, "None")
                   /\ doneOrder' = Append(doneOrder, b)
                   /\ UNCHANGED <<fs, ghost>>
       ELSE /\ fs' = [fs EXCEPT ![b].frames_txt = TRUE]
            /\ worker' = [worker EXCEPT ![b].pc = "reasm_encode"]
            /\ UNCHANGED <<doneOrder, ghost>>
    /\ UNCHANGED <<cfgVars, mainVars, spec, poller, reasm, progVars>>

\* the encode of the segment (a CalledProcessError is logged), the removal of
\* the frame list and of both directories, and `return segment_output`
ReassembleEncode(b) ==
    /\ worker[b].pc = "reasm_encode"
    /\ \E ok \in BOOLEAN :
         fs' = RemoveDirs([fs EXCEPT ![b].segment = ok,
                                     ![b].frames_txt = FALSE], b)
    /\ worker' = Returned(worker, b, "segment")
    /\ doneOrder' = Append(doneOrder, b)
    /\ UNCHANGED <<cfgVars, mainVars, spec, poller, reasm, progVars, ghost>>

\* --------------------------------------------- do_reassembly (its own thread)
\* the glob of reassembly_dir: with no frame the placeholder is generated (or
\* None returned) and the thread ends; otherwise the frame list is written
ReasmGlob(b) ==
    /\ reasm[b].pc = "glob"
    /\ IF fs[b].frames = 0
       THEN \E ok \in BOOLEAN :
              IF ok
              THEN /\ fs' = MakePlaceholder(fs, b)
                   /\ reasm' = [reasm EXCEPT ![b].pc = "done",
                                             ![b].result = "placeholder"]
              ELSE /\ reasm' = [reasm EXCEPT ![b].pc = "done",
                                             ![b].result = "None"]
                   /\ UNCHANGED fs
       ELSE /\ fs' = [fs EXCEPT ![b].frames_txt = TRUE]
            /\ reasm' = [reasm EXCEPT ![b].pc = "encode"]
    /\ UNCHANGED <<cfgVars, mainVars, spec, worker, poller, doneOrder,
                   progVars, ghost>>

\* the encode, the removal of the frame list and of reassembly_dir, and
\* `return segment_output` into result_container[0]
ReasmEncode(b) ==
    /\ reasm[b].pc = "encode"
    /\ \E ok \in BOOLEAN :
         fs' = [fs EXCEPT ![b].segment = ok, ![b].frames_txt = FALSE,
                          ![b].reassembly_dir = FALSE, ![b].frames = 0]
    /\ reasm' = [reasm EXCEPT ![b].pc = "done", ![b].result = "segment"]
    /\ UNCHANGED <<cfgVars, mainVars, spec, worker, poller, doneOrder,
                   progVars, ghost>>

\* -------------------------------------------- poll_progress (its own thread)
\* mutant: every frame in the directory is reported at each poll
PollDelta_Recount(current_count, last_count) == current_count

\* delta = current_count - last_count
PollDelta(current_count, last_count) == current_count - last_count

\* one round of the loop: it ends when progress_event is set; otherwise the
\* frames of processed_dir are counted and, when there are more than
\* last_count, update_progress(delta) is called
PollCheck(b) ==
    /\ poller[b].pc = "check"
    /\ IF poller[b].event
       THEN /\ poller' = [poller EXCEPT ![b].pc = "done"]
            /\ UNCHANGED ghost
       ELSE /\ fs[b].frames > poller[b].last_count
            /\ poller' = [poller EXCEPT
                            ![b].pc = "upd_acquire",
                            ![b].current_count = fs[b].frames,
                            ![b].delta =
                                PollDelta(fs[b].frames, poller[b].last_count)]
            /\ ghost' = [ghost EXCEPT
                           !.delta_sum =
                               @ + PollDelta(fs[b].frames, poller[b].last_count),
                           !.polled[b] =
                               @ + PollDelta(fs[b].frames, poller[b].last_count),
                           !.seen[b] = IF fs[b].frames > @ THEN fs[b].frames
                                       ELSE @]
    /\ UNCHANGED <<cfgVars, mainVars, spec, worker, reasm, fs, doneOrder,
                   progVars>>

\* update_progress, entered by the poller: `with progress_lock:` and the read
PollUpdAcquire(b) ==
    /\ poller[b].pc = "upd_acquire"
    /\ CanAcquire
    /\ progress_lock' = TRUE
    /\ poller' = [poller EXCEPT ![b].pc = "upd_write",
                                ![b].tmp = frames_processed]
    /\ UNCHANGED <<cfgVars, mainVars, spec, worker, reasm, fs, doneOrder,
                   frames_processed, batches_completed, progress_done,
                   reporter, ghost>>

\* the write of frames_processed[0] += delta, the release of the lock, and
\* last_count = current_count
PollUpdWrite(b) ==
    /\ poller[b].pc = "upd_write"
    /\ frames_processed' = poller[b].tmp + poller[b].delta
    /\ progress_lock' = FALSE
    /\ poller' = [poller EXCEPT ![b].pc = "check", ![b].tmp = 0,
                                ![b].delta = 0, ![b].current_count = 0,
                                ![b].last_count = poller[b].current_count]
    /\ UNCHANGED <<cfgVars, mainVars, spec, worker, reasm, fs, doneOrder,
                   batches_completed, progress_done, reporter, ghost>>

\* --------------------------------------------- progress_bar (its own thread)
\* while not progress_done.is_set()
ReporterCheck ==
    /\ reporter.pc = "check"
    /\ reporter' = [reporter EXCEPT
                      !.pc = IF progress_done THEN "final" ELSE "tick"]
    /\ UNCHANGED <<cfgVars, mainVars, spec, worker, poller, reasm, fs,
                   doneOrder, frames_processed, batches_completed,
                   progress_lock, progress_done, ghost>>

\* a periodic tick: both counters are read under the lock and printed (what
\* is printed is kept for the final tick only)
ReporterTick ==
    /\ reporter.pc = "tick"
    /\ CanAcquire
    /\ reporter' = [reporter EXCEPT !.pc = "check"]
    /\ UNCHANGED <<cfgVars, mainVars, spec, worker, poller, reasm, fs,
                   doneOrder, frames_processed, batches_completed,
                   progress_lock, progress_done, ghost>>

\* the ETA text of the print after the loop: "ETA: 0.0 min"
FinalEta == "0.0"

\* the final tick, after the loop: both counters are read under the lock and
\* printed with the fixed ETA text
ReporterFinal ==
    /\ reporter.pc = "final"
    /\ CanAcquire
    /\ reporter' = [pc |-> "done", current |-> frames_processed,
                    batches |-> batches_completed, eta |-> FinalEta]
    /\ UNCHANGED <<cfgVars, mainVars, spec, worker, poller, reasm, fs,
                   doneOrder, frames_processed, batches_completed,
                   progress_lock, progress_done, ghost>>

\* ------------------------------------------ process_video after the submits
\* the future of batch b is done: process_batch returned or raised
Ended(b) == worker[b].pc \in {"returned", "raised"}

\* mutant: the slot is the future's rank in the order as_completed yields
FutureToIndex_CompletionRank(b) == Len(collected)

\* batch_index = future_to_index[future]
FutureToIndex(b) == b

\* mutant: the batch is counted as completed although future.result() raised
AfterRaise_Counted == "count"

\* where the loop goes on when future.result() raises: the except branch
\* prints, the two statements after future.result() are not run
AfterRaise == "collect"

\* one round of `for future in as_completed(future_to_index)`: as_completed
\* yields a future that is done and was not yielded before (those already done
\* in no particular order); future.result() either gives the worker's return
\* value, which is stored in the segment table, or raises the worker's
\* exception, which is printed
Collect(b) ==
    /\ mainPc = "collect"
    /\ Ended(b)
    /\ \A i \in 1 .. Len(collected) : collected[i] # b
    /\ IF worker[b].result = "raised"
       THEN /\ mainPc' = AfterRaise
            /\ UNCHANGED <<segment_files, ghost>>
       ELSE /\ segment_files' = [segment_files EXCEPT
                                   ![FutureToIndex(b)] = worker[b].result]
            /\ ghost' = [ghost EXCEPT
                           !.slot_writes[FutureToIndex(b)] = @ + 1,
                           !.slot_writer[FutureToIndex(b)] = b]
            /\ mainPc' = "count"
    /\ collected' = Append(collected, b)
    /\ UNCHANGED <<cfgVars, batch_index, join_index, job, spec, worker, poller,
                   reasm, fs, doneOrder, progVars>>

\* with progress_lock: batches_completed[0] += 1, for the future that was
\* just yielded
CountBatch ==
    /\ mainPc = "count"
    /\ CanAcquire
    /\ batches_completed' = batches_completed + 1
    /\ ghost' = [ghost EXCEPT !.counted[collected[Len(collected)]] = @ + 1]
    /\ mainPc' = "collect"
    /\ UNCHANGED <<cfgVars, batch_index, collected, segment_files, join_index,
                   job, spec, worker, poller, reasm, fs, doneOrder,
                   frames_processed, progress_lock, progress_done, reporter>>

\* as_completed is exhausted once every future has been yielded
AllCollected == Len(collected) = num_batches

\* progress_done.set()
StopReporter ==
    /\ mainPc = "collect"
    /\ AllCollected
    /\ progress_done' = TRUE
    /\ mainPc' = "join_reporter"
    /\ UNCHANGED <<cfgVars, batch_index, collected, segment_files, join_index,
                   job, spec, worker, poller, reasm, fs, doneOrder,
                   frames_processed, batches_completed, progress_lock,
                   reporter, ghost>>

\* progress_thread.join()
JoinReporter ==
    /\ mainPc = "join_reporter"
    /\ reporter.pc = "done"
    /\ mainPc' = "join_deferred"
    /\ UNCHANGED <<cfgVars, batch_index, collected, segment_files, join_index,
                   job, spec, worker, poller, reasm, fs, doneOrder, progVars,
                   ghost>>

\* mutant: result_container[0] is read without joining the thread
ReassemblyJoined_NoWait(b) == TRUE

\* reassembly_thread.join() returns once the thread has ended
ReassemblyJoined(b) == reasm[b].pc = "done"

\* one round of `for i, seg in enumerate(segment_files)`: a tuple is joined
\* and replaced by result_container[0]
JoinDeferred ==
    /\ mainPc = "join_deferred"
    /\ join_index < num_batches
    /\ IF segment_files[join_index] = "deferred"
       THEN /\ ReassemblyJoined(join_index)
            /\ segment_files' = [segment_files EXCEPT
                                   ![join_index] = reasm[join_index].result]
            /\ ghost' = [ghost EXCEPT !.joins[join_index] = @ + 1]
       ELSE UNCHANGED <<segment_files, ghost>>
    /\ join_index' = join_index + 1
    /\ UNCHANGED <<cfgVars, mainPc, batch_index, collected, job, spec, worker,
                   poller, reasm, fs, doneOrder, progVars>>

\* os.path.exists(converted_video)
Exists(j, path) ==
    IF path = "original" THEN j.source_exists ELSE j.converted_exists

\* os.remove(path)
Remove(j, path) ==
    IF path = "original" THEN [j EXCEPT !.source_exists = FALSE]
    ELSE [j EXCEPT !.converted_exists = FALSE]

\* mutant: the file the batches read is removed whichever file it is
Differs_Always(converted_video) == TRUE

\* converted_video != video_file
Differs(converted_video) == converted_video # "original"

\* after the join loop: if converted_video != video_file and
\* os.path.exists(converted_video): os.remove(converted_video)
RemoveConverted ==
    /\ mainPc = "join_deferred"
    /\ join_index = num_batches
    /\ job' = IF Differs(job.converted_video) /\ Exists(job, job.converted_video)
              THEN Remove(job, job.converted_video)
              ELSE job
    /\ mainPc' = "write_list"
    /\ UNCHANGED <<cfgVars, batch_index, collected, segment_files, join_index,
                   spec, worker, poller, reasm, fs, doneOrder, progVars, ghost>>

\* the lines written to concat_list_file: for seg in segment_files, the
\* segments that are not None (an entry is the batch index of its path)
RECURSIVE ListFrom(_, _)
ListFrom(segs, i) ==
    IF i >= num_batches THEN << >>
    ELSE (IF segs[i] # "None" THEN <<i>> ELSE << >>) \o ListFrom(segs, i + 1)

\* mutant: the list is written in the order the futures were collected
ConcatList_CompletionOrder(segs) ==
    SelectSeq(collected, LAMBDA b : segs[b] # "None")

ConcatList(segs) == ListFrom(segs, 0)

\* the segment list file is written
WriteList ==
    /\ mainPc = "write_list"
    /\ job' = [job EXCEPT !.concat_list = ConcatList(segment_files),
                          !.list_written = TRUE, !.list_file = TRUE]
    /\ mainPc' = "concat"
    /\ UNCHANGED <<cfgVars, batch_index, collected, segment_files, join_index,
                   spec, worker, poller, reasm, fs, doneOrder, progVars, ghost>>

\* the concatenation: on a CalledProcessError process_video returns None
Concat ==
    /\ mainPc = "concat"
    /\ \E ok \in BOOLEAN :
         IF ok
         THEN /\ job' = [job EXCEPT !.concat = "ok", !.no_audio = TRUE]
              /\ mainPc' = "merge"
         ELSE /\ job' = [job EXCEPT !.concat = "failed", !.ret = "None"]
              /\ mainPc' = "done"
    /\ UNCHANGED <<cfgVars, batch_index, collected, segment_files, join_index,
                   spec, worker, poller, reasm, fs, doneOrder, progVars, ghost>>

\* the audio merge: on a CalledProcessError process_video returns None
Merge ==
    /\ mainPc = "merge"
    /\ \E ok \in BOOLEAN :
         IF ok
         THEN /\ job' = [job EXCEPT !.merge = "ok", !.output = TRUE]
              /\ mainPc' = "cleanup"
         ELSE /\ job' = [job EXCEPT !.merge = "failed", !.ret = "None"]
              /\ mainPc' = "done"
    /\ UNCHANGED <<cfgVars, batch_index, collected, segment_files, join_index,
                   spec, worker, poller, reasm, fs, doneOrder, progVars, ghost>>

\* the segments named in the table, the list file and the video-only file are
\* removed; process_video returns video_elapsed
Cleanup ==
    /\ mainPc = "cleanup"
    /\ fs' = [b \in Slots |->
                [fs[b] EXCEPT
                   !.segment = IF segment_files[b] = "segment"
                               THEN FALSE ELSE @,
                   !.placeholder = IF segment_files[b] = "placeholder"
                                   THEN FALSE ELSE @]]
    /\ job' = [job EXCEPT !.list_file = FALSE, !.no_audio = FALSE,
                          !.ret = "elapsed"]
    /\ mainPc' = "done"
    /\ UNCHANGED <<cfgVars, batch_index, collected, segment_files, join_index,
                   spec, worker, poller, reasm, doneOrder, progVars, ghost>>

\* ------------------------------------------------------------ specification
Next ==
    \/ Stagger
    \/ Submit
    \/ CountBatch
    \/ StopReporter
    \/ JoinReporter
    \/ JoinDeferred
    \/ RemoveConverted
    \/ WriteList
    \/ Concat
    \/ Merge
    \/ Cleanup
    \/ ReporterCheck
    \/ ReporterTick
    \/ ReporterFinal
    \/ \E b \in Slots :
         \/ StartWorker(b)
         \/ Collect(b)
         \/ Extract(b)
         \/ PlaceholderGate(b)
         \/ WorkerUpdAcquire(b)
         \/ WorkerUpdWrite(b)
         \/ EngineWrite(b)
         \/ EngineSucceed(b)
         \/ EngineFail(b)
         \/ EngineRaise(b)
         \/ JoinPoller(b)
         \/ PlaceholderExhausted(b)
         \/ Decouple(b)
         \/ ReassembleList(b)
         \/ ReassembleEncode(b)
         \/ ReasmGlob(b)
         \/ ReasmEncode(b)
         \/ PollCheck(b)
         \/ PollUpdAcquire(b)
         \/ PollUpdWrite(b)

Spec == Init /\ [][Next]_vars

\* ------------------------------------------------- the job under fair threads
\* a step of process_video's own thread
MainStep ==
    \/ Stagger
    \/ Submit
    \/ CountBatch
    \/ StopReporter
    \/ JoinReporter
    \/ JoinDeferred
    \/ RemoveConverted
    \/ WriteList
    \/ Concat
    \/ Merge
    \/ Cleanup
    \/ \E b \in Slots : Collect(b)

\* a step of the pool thread running process_batch for batch b; every
\* subprocess.run it waits for comes back, with a return or an exception
PoolStep(b) ==
    \/ StartWorker(b)
    \/ Extract(b)
    \/ PlaceholderGate(b)
    \/ WorkerUpdAcquire(b)
    \/ WorkerUpdWrite(b)
    \/ EngineSucceed(b)
    \/ EngineFail(b)
    \/ EngineRaise(b)
    \/ JoinPoller(b)
    \/ PlaceholderExhausted(b)
    \/ Decouple(b)
    \/ ReassembleList(b)
    \/ ReassembleEncode(b)

\* a step of poll_thread of batch b
PollStep(b) == PollCheck(b) \/ PollUpdAcquire(b) \/ PollUpdWrite(b)

\* a step of reassembly_thread of batch b
ReasmStep(b) == ReasmGlob(b) \/ ReasmEncode(b)

\* a step of progress_thread
ReporterStep == ReporterCheck \/ ReporterTick \/ ReporterFinal

\* every thread that can run is scheduled again
Fairness ==
    /\ WF_vars(MainStep)
    /\ WF_vars(ReporterStep)
    /\ \A b \in Slots :
         /\ WF_vars(PoolStep(b))
         /\ WF_vars(PollStep(b))
         /\ WF_vars(ReasmStep(b))

SpecLive == Init /\ [][Next]_vars /\ Fairness

\* ------------------------------------------------- the planner, checked alone
\* The batch specs of process_video's submit loop for every duration and batch
\* length of a wider range, without the workers.
InitPlan ==
    /\ duration = 1
    /\ BATCH_SIZE = 0
    /\ MAX_CONCURRENT_BATCHES = 1
    /\ mainPc = "plan"
    /\ batch_index = 0
    /\ spec = [b \in Slots |-> NoSpec]
    /\ worker = [b \in Slots |-> NoWorker]
    /\ poller = [b \in Slots |-> NoPoller]
    /\ reasm = [b \in Slots |-> NoReasm]
    /\ fs = [b \in Slots |-> NoFiles]
    /\ doneOrder = << >>
    /\ collected = << >>
    /\ segment_files = [b \in Slots |-> "None"]
    /\ join_index = 0
    /\ frames_processed = 0
    /\ batches_completed = 0
    /\ progress_lock = FALSE
    /\ progress_done = FALSE
    /\ reporter = NoReport
    /\ job = NoJob
    /\ ghost = NoGhost
    /\ reassembly = NoReassembly
    /\ probe = NoProbe
    /\ video = NoVideo
    /\ main_loop = NoMain
    /\ \E D \in 1 .. PlanMaxDuration, L \in 0 .. PlanMaxBatchSize :
         plan = [D |-> D, L |-> L, i |-> 0, specs |-> << >>]

\* one round of `for batch_index in range(num_batches)`: the spec submitted
PlanStep ==
    /\ plan.i < NumBatches(plan.D, plan.L)
    /\ plan' = [plan EXCEPT
                  !.i = @ + 1,
                  !.specs = Append(@,
                      [start |-> StartTimeBatch(plan.i, plan.D, plan.L),
                       dur |-> CurrentDuration(plan.i, plan.D, plan.L)])]
    /\ UNCHANGED <<duration, BATCH_SIZE, MAX_CONCURRENT_BATCHES, mainVars,
                   spec, worker, poller, reasm, fs, doneOrder, progVars, ghost,
                   reassembly, runVars>>

NextPlan == PlanStep

SpecPlan == InitPlan /\ [][NextPlan]_vars

\* ---------------------------------------------- the reassembly, checked alone
\* One run of the reassembly (do_reassembly, and the same statements inline in
\* process_batch) over a directory of frame files.  A file frame_<stem>.png is
\* modelled by its stem, a sequence of characters.

\* the job's variables, which a part of run.py checked alone leaves as they are
jobVars == <<duration, BATCH_SIZE, MAX_CONCURRENT_BATCHES, mainVars, spec,
             worker, poller, reasm, fs, doneOrder, progVars, ghost>>

\* the job has not started
JobAside ==
    /\ duration = 1
    /\ BATCH_SIZE = 0
    /\ MAX_CONCURRENT_BATCHES = 1
    /\ mainPc = "aside"
    /\ batch_index = 0
    /\ spec = [b \in Slots |-> NoSpec]
    /\ worker = [b \in Slots |-> NoWorker]
    /\ poller = [b \in Slots |-> NoPoller]
    /\ reasm = [b \in Slots |-> NoReasm]
    /\ fs = [b \in Slots |-> NoFiles]
    /\ doneOrder = << >>
    /\ collected = << >>
    /\ segment_files = [b \in Slots |-> "None"]
    /\ join_index = 0
    /\ frames_processed = 0
    /\ batches_completed = 0
    /\ progress_lock = FALSE
    /\ progress_done = FALSE
    /\ reporter = NoReport
    /\ job = NoJob
    /\ ghost = NoGhost

Digits == {"0", "1", "2"}

\* the code points of the characters, by which sorted() compares two names;
\* "." is the character that follows the stem in frame_<stem>.png
CharCode == ("." :> 46 @@ "0" :> 48 @@ "1" :> 49 @@ "2" :> 50 @@ "x" :> 120)

\* int() of one digit
DigitValue == ("0" :> 0 @@ "1" :> 1 @@ "2" :> 2)

\* the stems a directory may hold: every digit string of up to MaxStemLen
\* digits, zero-padded or not, and three that int() rejects
Stems ==
    UNION {[1 .. n -> Digits] : n \in 1 .. MaxStemLen}
      \cup {<< >>, <<"x">>, <<"1", "x">>}

RECURSIVE DirsUpTo(_)
\* the directories of at most k frame files
DirsUpTo(k) ==
    IF k = 0 THEN {{}}
    ELSE LET smaller == DirsUpTo(k - 1)
         IN  smaller \cup {d \cup {x} : d \in smaller, x \in Stems}

\* the orders in which glob.glob may list the directory d
Listings(d) ==
    {f \in [1 .. Cardinality(d) -> d] :
       \A i, j \in 1 .. Cardinality(d) : i # j => f[i] # f[j]}

RECURSIVE LexLess(_, _)
\* the string comparison a < b of the names frame_<a>.png and frame_<b>.png:
\* the first differing character decides
LexLess(a, b) ==
    LET ca == IF a = << >> THEN "." ELSE Head(a)
        cb == IF b = << >> THEN "." ELSE Head(b)
    IN  IF a = << >> /\ b = << >> THEN FALSE
        ELSE IF CharCode[ca] # CharCode[cb] THEN CharCode[ca] < CharCode[cb]
        ELSE LexLess(Tail(a), Tail(b))

RECURSIVE LexInsert(_, _)
LexInsert(x, s) ==
    IF s = << >> THEN <<x>>
    ELSE IF LexLess(x, Head(s)) THEN <<x>> \o s
    ELSE <<Head(s)>> \o LexInsert(x, Tail(s))

RECURSIVE Sorted(_)
\* sorted(glob.glob(...)): the names in ascending string order
Sorted(s) ==
    IF s = << >> THEN << >>
    ELSE LexInsert(s[Len(s)], Sorted(SubSeq(s, 1, Len(s) - 1)))

\* int(stem) raises ValueError unless the stem is a non-empty digit string
IntParses(stem) ==
    /\ stem # << >>
    /\ \A i \in 1 .. Len(stem) : stem[i] \in Digits

RECURSIVE IntOf(_)
\* int(stem) of a digit string, leading zeros allowed
IntOf(stem) ==
    IF stem = << >> THEN 0
    ELSE IntOf(SubSeq(stem, 1, Len(stem) - 1)) * 10 + DigitValue[stem[Len(stem)]]

\* timestamp = (frame_num - 1) / output_fps, kept as a fraction
Timestamp(frame_num, output_fps) == [num |-> frame_num - 1, den |-> output_fps]

\* t < u for two timestamps with positive denominators
TsLess(t, u) == t.num * u.den < u.num * t.den

RECURSIVE ParseFrames(_, _)
\* the loop over frame_files: a name that parses is appended with its
\* timestamp, a name that does not is reported and left out
ParseFrames(files, output_fps) ==
    IF files = << >> THEN << >>
    ELSE (IF IntParses(Head(files))
          THEN <<[filepath |-> Head(files),
                  timestamp |-> Timestamp(IntOf(Head(files)), output_fps)]>>
          ELSE << >>) \o ParseFrames(Tail(files), output_fps)

RECURSIVE TsInsert(_, _)
TsInsert(x, s) ==
    IF s = << >> THEN <<x>>
    ELSE IF TsLess(x.timestamp, Head(s).timestamp) THEN <<x>> \o s
    ELSE <<Head(s)>> \o TsInsert(x, Tail(s))

RECURSIVE TsSort(_)
\* a stable sort by timestamp
TsSort(s) ==
    IF s = << >> THEN << >>
    ELSE TsInsert(s[Len(s)], TsSort(SubSeq(s, 1, Len(s) - 1)))

\* mutant: the frames are left in the order of the sorted names
SortFrames_ByName(frames) == frames

\* frames.sort(key=lambda x: x[1])
SortFrames(frames) == TsSort(frames)

\* f"{duration_sec:.6f}" for duration_sec = 1.0 / output_fps, in microseconds
DurationText(output_fps) == (2 * 1000000 + output_fps) \div (2 * output_fps)

\* the lines of the frame list after the ffconcat header: a file and a
\* duration per frame, the duration of the last frame being 0.000000
EditList(frames, output_fps) ==
    [i \in 1 .. Len(frames) |->
       [file |-> frames[i].filepath,
        duration |-> IF i < Len(frames) THEN DurationText(output_fps) ELSE 0]]

InitFrames ==
    /\ JobAside
    /\ plan = NoPlan
    /\ probe = NoProbe
    /\ video = NoVideo
    /\ main_loop = NoMain
    /\ \E d \in DirsUpTo(MaxFiles), f \in 1 .. MaxFps, dec \in BOOLEAN :
         reassembly = [NoReassembly EXCEPT !.pc = "glob", !.dir = d,
                                           !.output_fps = f, !.decoupled = dec]

\* frame_files = sorted(glob.glob(...)), and `if not frame_files`
FramesGlob ==
    /\ reassembly.pc = "glob"
    /\ \E listing \in Listings(reassembly.dir) :
         reassembly' = [reassembly EXCEPT
                          !.frame_files = Sorted(listing),
                          !.pc = IF listing = << >> THEN "placeholder"
                                 ELSE "parse"]
    /\ UNCHANGED <<jobVars, plan, runVars>>

\* no frame file: the placeholder is generated and returned, or None is
\* returned when its generation fails
FramesPlaceholder ==
    /\ reassembly.pc = "placeholder"
    /\ \E ok \in BOOLEAN :
         reassembly' = [reassembly EXCEPT
                          !.pc = "done",
                          !.placeholder_failed = ~ok,
                          !.result = IF ok THEN "placeholder" ELSE "None"]
    /\ UNCHANGED <<jobVars, plan, runVars>>

\* the parsing loop
FramesParse ==
    /\ reassembly.pc = "parse"
    /\ reassembly' = [reassembly EXCEPT
                        !.frames = ParseFrames(reassembly.frame_files,
                                               reassembly.output_fps),
                        !.pc = "sort"]
    /\ UNCHANGED <<jobVars, plan, runVars>>

\* frames.sort(...)
FramesSort ==
    /\ reassembly.pc = "sort"
    /\ reassembly' = [reassembly EXCEPT !.frames = SortFrames(reassembly.frames),
                                        !.pc = "write"]
    /\ UNCHANGED <<jobVars, plan, runVars>>

\* the frame list file is written
FramesWrite ==
    /\ reassembly.pc = "write"
    /\ reassembly' = [reassembly EXCEPT
                        !.lines = EditList(reassembly.frames,
                                           reassembly.output_fps),
                        !.pc = "encode"]
    /\ UNCHANGED <<jobVars, plan, runVars>>

\* the encode of the frame list (a CalledProcessError is printed) and
\* `return segment_output`
FramesEncode ==
    /\ reassembly.pc = "encode"
    /\ \E ok \in BOOLEAN :
         reassembly' = [reassembly EXCEPT !.pc = "done", !.segment = ok,
                                          !.result = "segment"]
    /\ UNCHANGED <<jobVars, plan, runVars>>

NextFrames ==
    \/ FramesGlob
    \/ FramesPlaceholder
    \/ FramesParse
    \/ FramesSort
    \/ FramesWrite
    \/ FramesEncode

SpecFrames == InitFrames /\ [][NextFrames]_vars

\* ------------------------------------------------ main's loop, checked alone
\* main calls process_video for each video file in turn.  get_video_info and
\* convert_if_needed are followed statement by statement; the batch pipeline
\* of process_video, which Spec follows, is one step here.

\* fps is kept in units of 1e-7 frames per second, so that is_integer_fps's
\* tolerance of 1e-6 is FpsTol units
FpsUnit == 10000000
FpsTol == 10

\* the texts ffprobe prints: a ratio num/den, a decimal number with its
\* fraction digits, N/A, or something float() rejects
Ratio(n, d) == [kind |-> "ratio", num |-> n, den |-> d]
Decimal(w, f) == [kind |-> "decimal", whole |-> w, frac |-> f]
NotAvailable == [kind |-> "N/A"]
Garbage == [kind |-> "garbage"]

\* avg_frame_rate: 30/1, 59/2, 0/0, 29.97, 30.0000005, or garbage
FpsStrs == {Ratio(30, 1), Ratio(59, 2), Ratio(0, 0), Decimal(29, <<9, 7>>),
            Decimal(30, <<0, 0, 0, 0, 0, 0, 5>>), Garbage}

\* duration, in ticks: 2, 0, N/A, or garbage
DurationStrs == {Decimal(2, << >>), Decimal(0, << >>), NotAvailable, Garbage}

\* time_base: 1/1000, 1, 1/0, or garbage
TimeBaseStrs == {Ratio(1, 1000), Decimal(1, << >>), Ratio(1, 0), Garbage}

\* the extension of the video file
Exts == {".mp4", ".MP4", ".mkv"}

\* str.lower() on the extensions
Lower == (".mp4" :> ".mp4" @@ ".MP4" :> ".mp4" @@ ".mkv" :> ".mkv")

RECURSIVE FracUnits(_, _)
\* the value of the fraction digits f, in units of 1/unit
FracUnits(f, unit) ==
    IF f = << >> THEN 0
    ELSE (Head(f) * unit) \div 10 + FracUnits(Tail(f), unit \div 10)

\* float(text) raises ValueError (or, for a ratio, the division raises
\* ZeroDivisionError): `'/' in text` sends a ratio and N/A to the split
FloatFails(tok) ==
    \/ tok.kind \in {"garbage", "N/A"}
    \/ tok.kind = "ratio" /\ tok.den = 0

\* float(num) / float(den), or float(text), in units of 1/unit
FloatOf(tok, unit) ==
    IF tok.kind = "ratio" THEN (tok.num * unit) \div tok.den
    ELSE tok.whole * unit + FracUnits(tok.frac, unit)

\* float(duration_str): a ratio is no number for float()
DurationFails(tok) == tok.kind # "decimal"

\* the time base as a fraction: float(num_tb) / float(den_tb), or
\* float(time_base_str)
TimeBaseOf(tok) ==
    IF tok.kind = "ratio" THEN <<tok.num, tok.den>> ELSE <<tok.whole, 1>>

\* return 24.0, 0.0, 1.0 / 1000
Defaults == [fps |-> 24 * FpsUnit, duration |-> 0, time_base |-> <<1, 1000>>]

\* the except branch of get_video_info
ProbeFail(p, why) ==
    [p EXCEPT !.pc = "returned", !.failed = why, !.ret = Defaults]

Abs(x) == IF x < 0 THEN -x ELSE x

\* round(fps): to the nearest integer, a tie to the even one
Round(fps) ==
    LET f == fps \div FpsUnit
        r == fps % FpsUnit
    IN  IF 2 * r < FpsUnit THEN f
        ELSE IF 2 * r > FpsUnit THEN f + 1
        ELSE IF f % 2 = 0 THEN f ELSE f + 1

\* is_integer_fps: abs(fps - round(fps)) < tol
IsIntegerFps(fps) == Abs(fps - Round(fps) * FpsUnit) < FpsTol

\* mutant: the extension is compared as it is written
IsMp4_CaseSensitive(ext) == ext = ".mp4"

\* input_ext == ".mp4", input_ext being the lower-cased extension
IsMp4(ext) == Lower[ext] = ".mp4"

\* mutant: only a negative duration is skipped
SkipVideo_OnlyNegative(d) == d < 0

\* if duration <= 0
SkipVideo(d) == d <= 0

otherVars == <<jobVars, plan, reassembly>>

InitRun ==
    /\ JobAside
    /\ plan = NoPlan
    /\ reassembly = NoReassembly
    /\ probe = NoProbe
    /\ video = NoVideo
    /\ \E n \in 1 .. MaxVideos :
         main_loop = [NoMain EXCEPT !.pc = "loop", !.total_videos = n]

\* one round of main's loop: process_video is called, which calls
\* get_video_info
MainNext ==
    /\ main_loop.pc = "loop"
    /\ main_loop.i < main_loop.total_videos
    /\ main_loop' = [main_loop EXCEPT !.i = @ + 1, !.pc = "call"]
    /\ \E e \in Exts : video' = [NoVideo EXCEPT !.pc = "probe", !.ext = e]
    /\ probe' = [NoProbe EXCEPT !.pc = "stream"]
    /\ UNCHANGED otherVars

\* the first query (avg_frame_rate and duration of the stream): the process
\* fails, or prints fewer than 2 lines, or prints the two texts
ProbeStream ==
    /\ probe.pc = "stream"
    /\ LET p == [probe EXCEPT !.queries = @ + 1]
       IN  \/ probe' = ProbeFail(p, "process")
           \/ probe' = ProbeFail(p, "incomplete")
           \/ \E f \in FpsStrs, d \in DurationStrs :
                probe' = [p EXCEPT !.fps_str = f, !.duration_str = d,
                                   !.pc = IF d = NotAvailable THEN "format"
                                          ELSE "parse"]
    /\ UNCHANGED <<otherVars, video, main_loop>>

\* if duration_str == "N/A": the second query (duration of the format)
ProbeFormat ==
    /\ probe.pc = "format"
    /\ LET p == [probe EXCEPT !.queries = @ + 1]
       IN  \/ probe' = ProbeFail(p, "process")
           \/ \E d \in DurationStrs :
                probe' = [p EXCEPT !.duration_str = d, !.pc = "parse"]
    /\ UNCHANGED <<otherVars, video, main_loop>>

\* fps and duration are parsed
ProbeParse ==
    /\ probe.pc = "parse"
    /\ IF FloatFails(probe.fps_str) \/ DurationFails(probe.duration_str)
       THEN probe' = ProbeFail(probe, "malformed")
       ELSE probe' = [probe EXCEPT
                        !.ret.fps = FloatOf(probe.fps_str, FpsUnit),
                        !.ret.duration = FloatOf(probe.duration_str, 1),
                        !.pc = "time_base"]
    /\ UNCHANGED <<otherVars, video, main_loop>>

\* the third query (time_base) and its parsing; return fps, duration, time_base
ProbeTimeBase ==
    /\ probe.pc = "time_base"
    /\ LET p == [probe EXCEPT !.queries = @ + 1]
       IN  \/ probe' = ProbeFail(p, "process")
           \/ \E t \in TimeBaseStrs :
                IF FloatFails(t)
                THEN probe' = ProbeFail(p, "malformed")
                ELSE probe' = [p EXCEPT !.ret.time_base = TimeBaseOf(t),
                                        !.pc = "returned"]
    /\ UNCHANGED <<otherVars, video, main_loop>>

\* fps, duration, time_base = get_video_info(video_file); if duration <= 0:
\* return
VideoCheckDuration ==
    /\ video.pc = "probe"
    /\ probe.pc = "returned"
    /\ IF SkipVideo(probe.ret.duration)
       THEN video' = [video EXCEPT !.pc = "returned", !.ret = "None",
                                   !.failed = "skipped"]
       ELSE video' = [video EXCEPT !.pc = "convert", !.fps = probe.ret.fps,
                                   !.duration = probe.ret.duration]
    /\ UNCHANGED <<otherVars, probe, main_loop>>

\* converted_video = convert_if_needed(video_file, fps, script_dir): nothing
\* is run for an integer fps in an MP4; otherwise the remux or the re-encode
\* is run, and its CalledProcessError leaves process_video
VideoConvert ==
    /\ video.pc = "convert"
    /\ IF IsIntegerFps(video.fps) /\ IsMp4(video.ext)
       THEN video' = [video EXCEPT !.converted_video = "original",
                                   !.pc = "pipeline"]
       ELSE LET v == [video EXCEPT
                        !.tool = IF IsIntegerFps(video.fps) THEN "remux"
                                 ELSE "encode",
                        !.encode_fps = IF IsIntegerFps(video.fps) THEN 0
                                       ELSE Round(video.fps)]
            IN  \E ok \in BOOLEAN :
                  IF ok
                  THEN video' = [v EXCEPT !.converted_video = "converted",
                                          !.converted_exists = TRUE,
                                          !.pc = "pipeline"]
                  ELSE video' = [v EXCEPT !.pc = "raised", !.ret = "raised",
                                          !.failed = "convert"]
    /\ UNCHANGED <<otherVars, probe, main_loop>>

\* the batches are planned, the reporter is started, the batches are
\* submitted and collected, the reporter and the reassembly threads joined
VideoPipeline ==
    /\ video.pc = "pipeline"
    /\ video' = [video EXCEPT !.planned = TRUE, !.reporter_started = TRUE,
                              !.submitted = TRUE, !.pc = "remove"]
    /\ UNCHANGED <<otherVars, probe, main_loop>>

\* if converted_video != video_file and os.path.exists(converted_video)
VideoRemoveConverted ==
    /\ video.pc = "remove"
    /\ video' = [video EXCEPT
                   !.converted_exists =
                       IF video.converted_video # "original" THEN FALSE ELSE @,
                   !.pc = "concat"]
    /\ UNCHANGED <<otherVars, probe, main_loop>>

\* the concatenation of the segments: on a CalledProcessError, return
VideoConcat ==
    /\ video.pc = "concat"
    /\ \E ok \in BOOLEAN :
         IF ok
         THEN video' = [video EXCEPT !.pc = "merge"]
         ELSE video' = [video EXCEPT !.pc = "returned", !.ret = "None",
                                     !.failed = "concat"]
    /\ UNCHANGED <<otherVars, probe, main_loop>>

\* the audio merge into output_file: on a CalledProcessError, return
VideoMerge ==
    /\ video.pc = "merge"
    /\ \E ok \in BOOLEAN :
         IF ok
         THEN video' = [video EXCEPT !.pc = "cleanup", !.output = TRUE]
         ELSE video' = [video EXCEPT !.pc = "returned", !.ret = "None",
                                     !.failed = "merge"]
    /\ UNCHANGED <<otherVars, probe, main_loop>>

\* the intermediates are removed, the output is reported and video_elapsed
\* returned
VideoCleanup ==
    /\ video.pc = "cleanup"
    /\ video' = [video EXCEPT !.pc = "returned", !.ret = "elapsed"]
    /\ UNCHANGED <<otherVars, probe, main_loop>>

\* what main's history keeps of a call of process_video
Outcome == [ret |-> video.ret, failed |-> video.failed,
            output |-> video.output, probe_failed |-> probe.failed,
            tool |-> video.tool, planned |-> video.planned]

\* process_video has returned: if elapsed is not None: processed_videos += 1
MainReturn ==
    /\ main_loop.pc = "call"
    /\ video.pc = "returned"
    /\ main_loop' = [main_loop EXCEPT
                       !.pc = "loop",
                       !.processed_videos =
                           IF video.ret # "None" THEN @ + 1 ELSE @,
                       !.results = Append(@, Outcome)]
    /\ UNCHANGED <<otherVars, probe, video>>

\* process_video has raised: main catches nothing, the exception ends the run
MainRaise ==
    /\ main_loop.pc = "call"
    /\ video.pc = "raised"
    /\ main_loop' = [main_loop EXCEPT !.pc = "raised",
                                      !.results = Append(@, Outcome)]
    /\ UNCHANGED <<otherVars, probe, video>>

\* the loop is exhausted: the totals are printed
MainDone ==
    /\ main_loop.pc = "loop"
    /\ main_loop.i = main_loop.total_videos
    /\ main_loop' = [main_loop EXCEPT !.pc = "done"]
    /\ UNCHANGED <<otherVars, probe, video>>

NextRun ==
    \/ MainNext
    \/ ProbeStream
    \/ ProbeFormat
    \/ ProbeParse
    \/ ProbeTimeBase
    \/ VideoCheckDuration
    \/ VideoConvert
    \/ VideoPipeline
    \/ VideoRemoveConverted
    \/ VideoConcat
    \/ VideoMerge
    \/ VideoCleanup
    \/ MainReturn
    \/ MainRaise
    \/ MainDone

SpecRun == InitRun /\ [][NextRun]_vars

\* ===================================================================== claims
\* the worker of batch b has returned
WorkerReturned(b) == worker[b].pc = "returned"

\* the worker of batch b has ended, by a return or by an exception
WorkerEnded(b) == worker[b].pc \in {"returned", "raised"}

\* the outcome of batch b is known: a deferred reassembly has ended
Resolved(b) ==
    /\ WorkerReturned(b)
    /\ worker[b].result = "deferred" => reasm[b].pc = "done"

\* the outcome of batch b once a deferred reassembly is resolved
FinalOutcome(b) ==
    IF worker[b].result = "deferred" THEN reasm[b].result ELSE worker[b].result

\* process_video is past the deferred-join loop
PastJoins ==
    \/ mainPc \in {"write_list", "concat", "merge", "cleanup", "done"}
    \/ mainPc = "join_deferred" /\ join_index = num_batches

RECURSIVE SumTo(_, _)
SumTo(f, n) == IF n < 0 THEN 0 ELSE f[n] + SumTo(f, n - 1)

\* the deltas passed to update_progress by calls that have not yet written
InFlight ==
    SumTo([b \in Slots |->
             (IF worker[b].pc \in {"upd_acquire", "upd_write"}
              THEN worker[b].extracted ELSE 0)
             + (IF poller[b].pc \in {"upd_acquire", "upd_write"}
                THEN poller[b].delta ELSE 0)], MaxBatches - 1)

\* ------------------------------------------------------------------------ C1
\* C1: once the segment list is written it lists exactly the batches whose
\* slot is not None, in strictly ascending batch-index order, whatever the
\* order in which the workers finished.
C1_ListInIndexOrder ==
    job.list_written =>
      /\ \A i, j \in 1 .. Len(job.concat_list) :
           i < j => job.concat_list[i] < job.concat_list[j]
      /\ {job.concat_list[i] : i \in 1 .. Len(job.concat_list)}
           = {b \in Batches : segment_files[b] # "None"}

\* two segments are listed although the later batch finished first
C1_Witness ==
    /\ job.list_written
    /\ Len(job.concat_list) >= 2
    /\ doneOrder[1] > doneOrder[2]

\* ------------------------------------------------------------------------ C2
\* C2: for D > 0 and L > 0 the finished plan has ceil(D / L) specs, the first
\* starts at 0, each starts where the one before ends, the last ends at D,
\* every tick of [0, D) lies in exactly one spec, every duration is positive
\* and the last duration is D - L * (count - 1).
C2_PlanCoversOnce ==
    (plan.L > 0 /\ plan.i = NumBatches(plan.D, plan.L)) =>
      LET n == Len(plan.specs) IN
        /\ n = Ceil(plan.D, plan.L)
        /\ n >= 1
        /\ plan.specs[1].start = 0
        /\ \A k \in 1 .. n - 1 :
             plan.specs[k + 1].start = plan.specs[k].start + plan.specs[k].dur
        /\ plan.specs[n].start + plan.specs[n].dur = plan.D
        /\ \A k \in 1 .. n : plan.specs[k].dur > 0
        /\ \A t \in 0 .. plan.D - 1 :
             Cardinality({k \in 1 .. n :
                 /\ plan.specs[k].start <= t
                 /\ t < plan.specs[k].start + plan.specs[k].dur}) = 1
        /\ plan.specs[n].dur = plan.D - plan.L * (n - 1)

\* a finished plan of three or more specs whose last one is clamped
C2_Witness ==
    /\ plan.L > 0
    /\ plan.i = NumBatches(plan.D, plan.L)
    /\ Len(plan.specs) >= 3
    /\ plan.specs[Len(plan.specs)].dur < plan.L

\* ------------------------------------------------------------------------ C3
\* C3 as stated: a returned batch with fewer than 2 extracted frames has a
\* placeholder of the requested duration as its outcome and never ran the
\* engine.
C3_AlwaysPlaceholder ==
    \A b \in Batches :
      (WorkerReturned(b) /\ worker[b].extracted < MinFrames) =>
        /\ worker[b].result = "placeholder"
        /\ fs[b].placeholder_dur = CurrentDuration(b, duration, BATCH_SIZE)
        /\ ghost.engine_calls[b] = 0

\* C3 amended: with fewer than 2 extracted frames the engine is never run and
\* no poller is started; the outcome is a placeholder of the requested
\* duration when the placeholder generation succeeds and None, with no
\* placeholder made, when it fails.
C3_PlaceholderOrNone ==
    \A b \in Batches :
      /\ (worker[b].pc \in {"placeholder", "upd_acquire", "upd_write", "returned"}
            /\ worker[b].extracted < MinFrames) =>
           /\ ghost.engine_calls[b] = 0
           /\ poller[b].pc = "off"
      /\ (WorkerReturned(b) /\ worker[b].extracted < MinFrames) =>
           /\ worker[b].result \in {"placeholder", "None"}
           /\ worker[b].result = "placeholder" =>
                /\ fs[b].placeholder_dur = CurrentDuration(b, duration, BATCH_SIZE)
                /\ fs[b].placeholder_dur > 0
           /\ worker[b].result = "None" =>
                ~fs[b].placeholder /\ fs[b].placeholder_dur = 0

\* a batch with exactly one extracted frame returned a placeholder
C3_Witness ==
    \E b \in Batches :
      /\ WorkerReturned(b)
      /\ worker[b].extracted = 1
      /\ worker[b].result = "placeholder"
      /\ fs[b].placeholder

\* ------------------------------------------------------------------------ C4
\* C4 as stated: two failures and a success on the third attempt give a normal
\* segment; three failures give a placeholder.
C4_RetryOutcome ==
    \A b \in Batches :
      Resolved(b) =>
        /\ (worker[b].attempt = 2 /\ worker[b].success) =>
             FinalOutcome(b) = "segment"
        /\ (worker[b].attempt = max_attempts /\ ~worker[b].success) =>
             FinalOutcome(b) = "placeholder"

\* C4 amended: the engine is given up only after 3 failed attempts.  After two
\* failures and a success on attempt 3 the outcome is the normal segment when
\* the output directory holds at least one upscaled frame, and never the
\* exhausted-retries placeholder; with no upscaled frame it is a placeholder
\* or None.  After 3 failures the outcome is a placeholder when the
\* placeholder generation succeeds and None when it fails, never a normal
\* segment.
C4_RetryOutcomeAmended ==
    \A b \in Batches :
      /\ (worker[b].pc \in {"join_poller", "after_upscale"} \/ WorkerReturned(b)) =>
           /\ ghost.engine_calls[b] <= max_attempts
           /\ (worker[b].extracted >= MinFrames /\ ~worker[b].success) =>
                /\ worker[b].attempt = max_attempts
                /\ ghost.engine_calls[b] = max_attempts
      /\ Resolved(b) =>
           /\ (worker[b].attempt = 2 /\ worker[b].success) =>
                /\ ghost.engine_calls[b] = 3
                /\ ghost.upscaled[b] > 0 => FinalOutcome(b) = "segment"
                /\ ghost.upscaled[b] = 0 =>
                     FinalOutcome(b) \in {"placeholder", "None"}
           /\ (worker[b].attempt = max_attempts /\ ~worker[b].success) =>
                /\ FinalOutcome(b) \in {"placeholder", "None"}
                /\ FinalOutcome(b) = "None" => ~fs[b].placeholder
                /\ ~fs[b].segment

\* a batch whose engine failed twice and then succeeded ended with a segment
C4_Witness ==
    \E b \in Batches :
      /\ Resolved(b)
      /\ worker[b].attempt = 2
      /\ worker[b].success
      /\ ghost.engine_calls[b] = 3
      /\ FinalOutcome(b) = "segment"

\* ------------------------------------------------------------------------ C5
\* C5: under every interleaving the frame counter never decreases, it always
\* equals the sum of the deltas passed to update_progress less those of the
\* calls still waiting to write (no increment is lost), and once process_video
\* has ended and no call is waiting it equals the sum of all deltas (a poller
\* left running by a worker that raised may still call update_progress after
\* process_video has ended).
C5_CounterExact ==
    /\ [](/\ frames_processed + InFlight = ghost.delta_sum
          /\ (mainPc = "done" /\ InFlight = 0) =>
               frames_processed = ghost.delta_sum)
    /\ [][frames_processed' >= frames_processed]_vars

\* two pollers have both reported frames, the reporter has read the counter
\* at its final tick, and the job has ended with every delta counted
C5_Witness ==
    /\ mainPc = "done"
    /\ \E b, c \in Batches :
         b # c /\ poller[b].last_count > 0 /\ poller[c].last_count > 0
    /\ frames_processed = ghost.delta_sum
    /\ reporter.current = frames_processed
    /\ frames_processed >= 3

\* ------------------------------------------------------------------------ C6
\* C6: at most MAX_CONCURRENT_BATCHES workers execute at the same time, and a
\* submitted batch is started only while fewer than that many are executing.
C6_PoolBound ==
    /\ [](Running <= MAX_CONCURRENT_BATCHES)
    /\ [][\A b \in Slots :
            (worker[b].pc = "queued" /\ worker'[b].pc # "queued")
              => Running < MAX_CONCURRENT_BATCHES]_vars

\* a submitted batch waits while the pool's only worker is executing
C6_Witness ==
    /\ MAX_CONCURRENT_BATCHES = 1
    /\ Running = 1
    /\ \E b \in Batches : worker[b].pc = "queued"

\* ------------------------------------------------------------------------ C7
\* C7: when the segment table is read for the concatenation list every worker
\* has ended, every future has been collected, no reassembly thread is still
\* running, no slot holds a deferred handle, and every deferred handle has
\* been joined exactly once (no handle is ever joined twice).
C7_JoinedBeforeList ==
    /\ \A b \in Slots : ghost.joins[b] <= 1
    /\ PastJoins =>
         /\ Len(collected) = num_batches
         /\ \A b \in Batches :
              /\ WorkerEnded(b)
              /\ segment_files[b] # "deferred"
              /\ reasm[b].pc \in {"off", "done"}
              /\ ghost.joins[b] = IF worker[b].result = "deferred" THEN 1 ELSE 0
              /\ worker[b].result = "deferred" =>
                   segment_files[b] = reasm[b].result

\* the list was written after two deferred handles were joined
C7_Witness ==
    /\ job.list_written
    /\ \E b, c \in Batches :
         /\ b # c
         /\ ghost.joins[b] = 1 /\ segment_files[b] = "segment"
         /\ ghost.joins[c] = 1

\* ------------------------------------------------------------------------ C8
\* C8 as stated: once every future is collected, each batch was submitted
\* once, started once, and its slot was written once, by its own completion.
C8_ExactlyOneWrite ==
    (mainPc \notin {"stagger", "submit", "collect", "count"}) =>
      \A b \in Batches :
        /\ ghost.submits[b] = 1
        /\ ghost.starts[b] = 1
        /\ ghost.slot_writes[b] = 1
        /\ ghost.slot_writer[b] = b

\* C8 amended: each batch index is submitted at most once and started at most
\* once, and its slot is written at most once by a worker completion and only
\* by its own; once every future is collected each batch was submitted once
\* and started once, and its slot was written once when its worker returned (a
\* path, a deferred handle or None) and not at all when its worker raised, the
\* slot then keeping its initial None.
C8_OneOutcome ==
    /\ \A b \in Slots :
         /\ ghost.submits[b] <= 1
         /\ ghost.starts[b] <= 1
         /\ ghost.slot_writes[b] <= 1
         /\ ghost.slot_writer[b] \in {-1, b}
         /\ b \notin Batches => ghost.submits[b] = 0 /\ ghost.slot_writes[b] = 0
    /\ (mainPc \notin {"stagger", "submit", "collect", "count"}) =>
         \A b \in Batches :
           /\ ghost.submits[b] = 1
           /\ ghost.starts[b] = 1
           /\ WorkerEnded(b)
           /\ ghost.slot_writes[b] = IF worker[b].result = "raised" THEN 0 ELSE 1
           /\ worker[b].result = "raised" => segment_files[b] = "None"

\* every future is collected: one worker raised, another returned a segment
C8_Witness ==
    /\ mainPc = "join_reporter"
    /\ \E b, c \in Batches :
         /\ worker[b].result = "raised" /\ ghost.slot_writes[b] = 0
         /\ worker[c].result = "segment" /\ ghost.slot_writes[c] = 1
         /\ segment_files[c] = "segment"

\* ------------------------------------------------------------------------ C9
\* C9 as stated: whatever fails inside a batch, process_video does not end
\* before the concatenation has run; the list is written only after every
\* future is collected and every worker has ended; every batch that produced
\* no segment file (no segment, no placeholder) is skipped, so the list names
\* produced files only; the merge runs exactly when the concatenation
\* succeeded; and process_video returns only after a failed concatenation, a
\* failed merge or the cleanup.
C9_FailedBatchSkipped ==
    /\ job.list_written =>
         /\ Len(collected) = num_batches
         /\ \A b \in Batches : WorkerEnded(b)
         /\ Len(job.concat_list)
              = Cardinality({b \in Batches : segment_files[b] # "None"})
    /\ mainPc = "concat" =>
         \A i \in 1 .. Len(job.concat_list) :
           fs[job.concat_list[i]].segment \/ fs[job.concat_list[i]].placeholder
    /\ mainPc \in {"concat", "merge", "cleanup", "done"} => job.list_written
    /\ mainPc \in {"merge", "cleanup"} => job.concat = "ok"
    /\ mainPc = "cleanup" => job.merge = "ok"
    /\ (mainPc = "done" \/ job.ret # "running") =>
         /\ mainPc = "done"
         /\ job.concat # "not run"
         /\ job.concat = "ok" => job.merge # "not run"
         /\ job.ret = IF job.concat = "ok" /\ job.merge = "ok"
                      THEN "elapsed" ELSE "None"

\* ----------------------------------------------------------------------- C10
\* C10 as stated: a worker that has returned (a deferred one once joined) has
\* left no extraction directory, processing directory or frame list file, and
\* when process_video has returned no segment, placeholder, segment list file
\* or video-only intermediate of the job remains.
C10_AllCleanedUp ==
    /\ \A b \in Batches :
         (WorkerReturned(b)
            /\ (worker[b].result = "deferred" => ghost.joins[b] = 1)) =>
           /\ ~fs[b].extraction_dir
           /\ ~fs[b].processed_dir
           /\ ~fs[b].reassembly_dir
           /\ ~fs[b].frames_txt
    /\ job.ret # "running" =>
         /\ \A b \in Batches : ~fs[b].segment /\ ~fs[b].placeholder
         /\ ~job.list_file
         /\ ~job.no_audio

\* ----------------------------------------------------------------------- C11
RECURSIVE Pow10(_)
Pow10(k) == IF k = 0 THEN 1 ELSE 10 * Pow10(k - 1)

RECURSIVE PlaceSum(_, _)
\* the number a digit string denotes: the sum of its digits times their
\* place values
PlaceSum(stem, i) ==
    IF i > Len(stem) THEN 0
    ELSE DigitValue[stem[i]] * Pow10(Len(stem) - i) + PlaceSum(stem, i + 1)

SequenceNumber(stem) == PlaceSum(stem, 1)

\* every name of the directory carries a sequence number, and no two names
\* carry the same
DistinctNumbers(d) ==
    /\ \A x \in d : x # << >> /\ \A i \in 1 .. Len(x) : x[i] \in Digits
    /\ \A x, y \in d : x # y => SequenceNumber(x) # SequenceNumber(y)

\* C11: for a directory whose names carry distinct sequence numbers, whatever
\* the order in which it is listed, the frame list written names every frame
\* file once, in strictly ascending order of the sequence number; each frame
\* was given the timestamp (sequence - 1) / output_fps, and each line but the
\* last has the duration 1 / output_fps to the nearest microsecond, the last
\* the duration 0.
C11_NumericOrder ==
    (reassembly.pc \in {"encode", "done"} /\ reassembly.dir # {}
       /\ DistinctNumbers(reassembly.dir)) =>
      LET lines == reassembly.lines
          frames == reassembly.frames
          n == Len(lines)
      IN  /\ n = Cardinality(reassembly.dir)
          /\ {lines[i].file : i \in 1 .. n} = reassembly.dir
          /\ \A i, j \in 1 .. n :
               i < j => SequenceNumber(lines[i].file)
                          < SequenceNumber(lines[j].file)
          /\ Len(frames) = n
          /\ \A i \in 1 .. n :
               /\ frames[i].filepath = lines[i].file
               /\ frames[i].timestamp.num * reassembly.output_fps
                    = (SequenceNumber(lines[i].file) - 1)
                        * frames[i].timestamp.den
               /\ frames[i].timestamp.den > 0
               /\ lines[i].duration = 0 <=> i = n
               /\ i < n =>
                    LET err == lines[i].duration * reassembly.output_fps
                                 - 1000000
                    IN  2 * err <= reassembly.output_fps
                          /\ -2 * err <= reassembly.output_fps

\* a list of two frames whose numeric order is the reverse of the order of
\* their names (frame_10.png sorts before frame_2.png)
C11_Witness ==
    /\ reassembly.pc = "done"
    /\ DistinctNumbers(reassembly.dir)
    /\ Len(reassembly.lines) = 2
    /\ LexLess(reassembly.lines[2].file, reassembly.lines[1].file)
    /\ reassembly.frame_files[1] = reassembly.lines[2].file

\* ----------------------------------------------------------------------- C12
\* C12: with batch length 0 and any duration D > 0 the submit loop makes
\* exactly one round: it is due while no spec has been produced, the spec it
\* produces starts at 0 and lasts D, and no further round is possible.
C12_ZeroLengthOneBatch ==
    plan.L = 0 =>
      /\ plan.D > 0
      /\ Len(plan.specs) = plan.i
      /\ Len(plan.specs) <= 1
      /\ Len(plan.specs) = 0 => ENABLED PlanStep
      /\ Len(plan.specs) = 1 =>
           /\ plan.specs[1] = [start |-> 0, dur |-> plan.D]
           /\ ~(ENABLED PlanStep)

\* the single spec of a duration longer than one tick, batch length 0
C12_Witness ==
    /\ plan.L = 0
    /\ plan.D > 1
    /\ Len(plan.specs) = 1
    /\ plan.specs[1].dur = plan.D

\* ----------------------------------------------------------------------- C13
\* convert_if_needed has run for the video of the current call
ConvertHasRun == video.converted_video # "none" \/ video.failed = "convert"

\* the fps is within the tolerance of an integer
NearInteger(fps) ==
    \E n \in 0 .. (fps \div FpsUnit + 1) : Abs(fps - n * FpsUnit) < FpsTol

\* no integer is nearer to the fps than n
Nearest(n, fps) == 2 * Abs(fps - n * FpsUnit) <= FpsUnit

\* C13: convert_if_needed follows the decision table.  Once it has run for a
\* video: with an fps within 1e-6 of an integer and an MP4 container (the
\* extension compared without regard to case) no tool has run and the path
\* returned is the original one; with such an fps and another container the
\* stream-copy remux alone has run; with any other fps the re-encode has run,
\* to the integer nearest to the fps; and whenever the remux or the
\* re-encode returned, the path is the converted file.
C13_DecisionTable ==
    ConvertHasRun =>
        LET int == NearInteger(video.fps)
            mp4 == video.ext \in {".mp4", ".MP4"}
        IN  /\ (int /\ mp4) =>
                /\ video.tool = "none"
                /\ video.converted_video = "original"
                /\ ~video.converted_exists
            /\ (int /\ ~mp4) =>
                /\ video.tool = "remux"
                /\ video.encode_fps = 0
            /\ ~int =>
                /\ video.tool = "encode"
                /\ Nearest(video.encode_fps, video.fps)
            /\ (video.tool # "none" /\ video.pc # "raised") =>
                video.converted_video = "converted"

\* a 29.97 fps video has been re-encoded to 30 fps, after an integer-fps MP4
\* went through the whole job with no tool run on it
C13_Witness ==
    /\ video.fps = 299700000
    /\ video.tool = "encode"
    /\ video.encode_fps = 30
    /\ video.converted_video = "converted"
    /\ Len(main_loop.results) = 1
    /\ main_loop.results[1].tool = "none"
    /\ main_loop.results[1].ret = "elapsed"

\* ----------------------------------------------------------------------- C14
\* the videos main's history shows as gone through
Counted ==
    Cardinality({k \in 1 .. Len(main_loop.results) :
                   main_loop.results[k].ret = "elapsed"})

\* C14 as stated: a video whose concatenation or audio merge failed has ended
\* with no output and is not counted as processed, and a failure in one video
\* never stops the processing of the others: when main has ended,
\* process_video has been called for every video of the run and has returned.
C14_OtherVideosContinue ==
    /\ \A k \in 1 .. Len(main_loop.results) :
         main_loop.results[k].failed \in {"concat", "merge"} =>
             /\ main_loop.results[k].ret = "None"
             /\ ~main_loop.results[k].output
    /\ main_loop.processed_videos = Counted
    /\ main_loop.pc \in {"done", "raised"} =>
         /\ Len(main_loop.results) = main_loop.total_videos
         /\ \A k \in 1 .. Len(main_loop.results) :
              main_loop.results[k].ret # "raised"

\* ----------------------------------------------------------------------- C15
\* process_video has done nothing for the video but probe it
VideoUntouched ==
    /\ video.pc \in {"probe", "returned"}
    /\ video.ret \in {"pending", "None"}
    /\ video.tool = "none"
    /\ video.converted_video = "none"
    /\ ~video.converted_exists
    /\ ~video.planned
    /\ ~video.submitted
    /\ ~video.reporter_started
    /\ ~video.output

\* C15: a probing failure (a query's process error, too few lines, a text
\* that does not parse) makes get_video_info return (24.0, 0.0, 1/1000), and
\* process_video then returns None at once: no tool of the conversion has
\* run, nothing is planned or submitted, no reporter started, no output.
C15_ProbeFailureSkips ==
    /\ probe.failed # "none" =>
         /\ probe.pc = "returned"
         /\ probe.ret = Defaults
         /\ VideoUntouched
    /\ \A k \in 1 .. Len(main_loop.results) :
         main_loop.results[k].probe_failed # "none" =>
             /\ main_loop.results[k].ret = "None"
             /\ main_loop.results[k].failed = "skipped"
             /\ main_loop.results[k].tool = "none"
             /\ ~main_loop.results[k].planned
             /\ ~main_loop.results[k].output

\* the time-base text of the first video did not parse, the video was
\* skipped, and the second video went through
C15_Witness ==
    /\ Len(main_loop.results) = 2
    /\ main_loop.results[1].probe_failed = "malformed"
    /\ main_loop.results[1].ret = "None"
    /\ main_loop.results[2].ret = "elapsed"
    /\ main_loop.processed_videos = 1

\* ----------------------------------------------------------------------- C16
\* C16: the batches are submitted in ascending index order (the submitted
\* batches are always the indices below batch_index), one stagger wait is made
\* before each submission whatever the pool's load, so that batch k is
\* submitted only after k + 1 waits, and a job of B batches makes exactly B
\* waits.
C16_StaggerBeforeEachSubmit ==
    /\ ghost.staggers = batch_index + (IF mainPc = "submit" THEN 1 ELSE 0)
    /\ \A b \in Slots :
         /\ ghost.submits[b] = (IF b < batch_index THEN 1 ELSE 0)
         /\ ghost.submits[b] = 1 =>
              /\ ghost.staggers >= b + 1
              /\ \A c \in 0 .. b - 1 : ghost.submits[c] = 1
    /\ mainPc \notin {"stagger", "submit"} =>
         /\ ghost.staggers = num_batches
         /\ batch_index = num_batches

\* the second wait was made although the pool had an idle worker
C16_Witness ==
    /\ mainPc = "submit"
    /\ batch_index = 1
    /\ ghost.staggers = 2
    /\ Running < MAX_CONCURRENT_BATCHES

\* ----------------------------------------------------------------------- C17
\* the engine processes of batch b that were started and have not ended
EngineAlive(b) ==
    ghost.engine_calls[b] - worker[b].attempt
      - (IF worker[b].success THEN 1 ELSE 0)
      - (IF worker[b].pc = "raised" /\ ghost.engine_calls[b] > 0 THEN 1 ELSE 0)

\* C17: the engine is run at most 3 times for a batch; at most one engine
\* process of a batch is alive at any time; a run is started only at the first
\* attempt or when the previous run has just failed (the attempt counter goes
\* up by one in the same step), and never once a run has succeeded.
C17_AttemptsSequential ==
    /\ [](\A b \in Slots :
            /\ ghost.engine_calls[b] <= max_attempts
            /\ EngineAlive(b) \in {0, 1}
            /\ EngineAlive(b) = 1 <=> worker[b].pc = "engine"
            /\ worker[b].success => worker[b].pc # "engine")
    /\ [][\A b \in Slots :
            ghost.engine_calls'[b] # ghost.engine_calls[b] =>
              /\ ghost.engine_calls'[b] = ghost.engine_calls[b] + 1
              /\ ~worker[b].success
              /\ ~worker'[b].success
              /\ \/ worker[b].pc = "extract" /\ ghost.engine_calls[b] = 0
                 \/ /\ worker[b].pc = "engine"
                    /\ worker'[b].attempt = worker[b].attempt + 1]_vars

\* a batch whose engine was run three times, each run failing
C17_Witness ==
    \E b \in Batches :
      /\ WorkerReturned(b)
      /\ ghost.engine_calls[b] = max_attempts
      /\ worker[b].attempt = max_attempts
      /\ ~worker[b].success

\* ----------------------------------------------------------------------- C18
\* C18 as stated: whenever a batch worker has ended, the poller of that batch
\* was never started or has ended, so it can no longer call update_progress.
C18_PollerStopped ==
    \A b \in Batches :
      WorkerEnded(b) => poller[b].pc \in {"off", "done"}

\* ----------------------------------------------------------------------- C19
\* C19 as stated, for the runs in which the generation of the placeholder does
\* not itself fail: when the reassembly has ended and no frame survived it,
\* because the directory held no frame file or because no name could be
\* parsed, its outcome is a placeholder, decoupled or not.
C19_NoSurvivorPlaceholder ==
    (/\ reassembly.pc = "done"
     /\ Len(reassembly.frames) = 0
     /\ ~reassembly.placeholder_failed) =>
      reassembly.result = "placeholder"

\* ----------------------------------------------------------------------- C20
\* C20 as stated: while the job runs, a slot of the segment table holds a
\* segment path only when the segment file was produced, and the concatenation
\* list names produced files only.
C20_NoPathWithoutFile ==
    job.ret = "running" =>
      /\ \A b \in Batches :
           /\ segment_files[b] = "segment" => fs[b].segment
           /\ segment_files[b] = "placeholder" => fs[b].placeholder
      /\ job.list_written =>
           \A i \in 1 .. Len(job.concat_list) :
             \/ fs[job.concat_list[i]].segment
             \/ fs[job.concat_list[i]].placeholder

\* ----------------------------------------------------------------------- C21
\* C21: a deferred handle and a reassembly thread exist only with a pool of
\* size 1.  A worker whose engine run succeeded returns, with a pool of size
\* 1, the deferred handle, in the step that starts the reassembly thread and
\* without waiting for it; with a larger pool it returns a segment path, a
\* placeholder or None, a segment path only from the encode of the
\* reassembly, after which the frame list and the directories are gone.
C21_DecoupledIffSerial ==
    /\ [](\A b \in Slots :
            /\ (worker[b].result = "deferred" \/ reasm[b].pc # "off") =>
                 MAX_CONCURRENT_BATCHES = 1
            /\ (WorkerReturned(b) /\ worker[b].success) =>
                 IF MAX_CONCURRENT_BATCHES = 1
                 THEN worker[b].result = "deferred"
                 ELSE /\ worker[b].result \in {"segment", "placeholder", "None"}
                      /\ worker[b].result = "segment" =>
                           /\ ~fs[b].frames_txt
                           /\ ~fs[b].processed_dir
                           /\ ~fs[b].extraction_dir)
    /\ [][\A b \in Slots :
            worker'[b].result # worker[b].result =>
              /\ worker'[b].result = "deferred" =>
                   /\ reasm[b].pc = "off"
                   /\ reasm'[b].pc = "glob"
              /\ (worker'[b].result = "segment" /\ worker[b].success) =>
                   /\ MAX_CONCURRENT_BATCHES > 1
                   /\ worker[b].pc = "reasm_encode"]_vars

\* with a pool of size 1 the worker of the next batch is extracting while the
\* reassembly thread of the batch before it is still running
C21_Witness ==
    /\ MAX_CONCURRENT_BATCHES = 1
    /\ \E b \in Batches :
         /\ b + 1 \in Batches
         /\ worker[b].result = "deferred"
         /\ reasm[b].pc \in {"glob", "encode"}
         /\ worker[b + 1].pc = "extract"

\* ----------------------------------------------------------------------- C22
\* the state of the batch worker's state machine that process_batch is in
StateOf(b) ==
    CASE worker[b].pc \in {"unsubmitted", "queued"} -> "Idle"
      [] worker[b].pc = "extract" -> "Extracting"
      [] worker[b].pc = "placeholder" -> "Placeholder"
      [] worker[b].pc \in {"engine", "join_poller"} -> "Upscaling"
      [] worker[b].pc = "after_upscale" ->
           IF worker[b].success THEN "Reassembling" ELSE "PlaceholderOnFailure"
      [] worker[b].pc = "reasm_encode" -> "Reassembling"
      [] worker[b].pc \in {"upd_acquire", "upd_write"} ->
           IF worker[b].success THEN "Reassembling" ELSE "Placeholder"
      [] worker[b].pc = "returned" -> "Done"
      [] worker[b].pc = "raised" -> "Raised"

\* Extracting -> FrameCheck -> {Placeholder | Upscaling} ->
\* {Reassembling | PlaceholderOnFailure} -> Done, the frame check being the
\* end of the extracting step; a worker may also end by an exception
Moves ==
    {<<"Idle", "Extracting">>, <<"Extracting", "Placeholder">>,
     <<"Extracting", "Upscaling">>, <<"Placeholder", "Done">>,
     <<"Upscaling", "Reassembling">>, <<"Upscaling", "PlaceholderOnFailure">>,
     <<"Reassembling", "Done">>, <<"PlaceholderOnFailure", "Done">>,
     <<"Extracting", "Raised">>, <<"Upscaling", "Raised">>}

\* C22 as stated: with fair threads and external processes that come back,
\* every worker moves along the state machine only and ends; every submitted
\* batch resolves (its deferred reassembly included); process_video reaches
\* the final assembly; and every poller that was started ends.
C22_AllTerminate ==
    /\ [][\A b \in Slots :
            StateOf(b)' # StateOf(b) => <<StateOf(b), StateOf(b)'>> \in Moves]_vars
    /\ \A b \in Slots :
         /\ [](worker[b].pc # "unsubmitted" => <>WorkerEnded(b))
         /\ [](reasm[b].pc # "off" => <>(reasm[b].pc = "done"))
         /\ [](poller[b].pc # "off" => <>(poller[b].pc = "done"))
    /\ <>(mainPc \in {"concat", "merge", "cleanup", "done"})

\* ----------------------------------------------------------------------- C23
\* process_video is past progress_thread.join()
PastReporterJoin ==
    mainPc \in {"join_deferred", "write_list", "concat", "merge", "cleanup",
                "done"}

\* C23 as stated: the reporter's stop event is set only when every future is
\* done and was collected; the final tick is made once, after the event was
\* set, and no tick follows it; it prints the ETA text 0.0 and the values the
\* frame counter and the batch counter keep from then on; and the reporter
\* has ended when process_video goes on to the joins and the segment list.
C23_FinalTick ==
    /\ [](progress_done =>
            /\ AllCollected
            /\ \A b \in Batches : WorkerEnded(b))
    /\ [](reporter.pc \in {"final", "done"} => progress_done)
    /\ [][reporter.pc = "done" => reporter' = reporter]_vars
    /\ [](reporter.pc = "done" =>
            /\ reporter.eta = "0.0"
            /\ reporter.batches = batches_completed
            /\ reporter.current = frames_processed)
    /\ [](PastReporterJoin => reporter.pc = "done")

\* ----------------------------------------------------------------------- C24
\* C24: for every batch, over all the attempts of the engine, the deltas its
\* poller has passed to update_progress add up to the largest frame count the
\* poller has observed, which is last_count once the update is made; and
\* while the directory of the upscaled frames exists (moved or not) that
\* total is at most the number of frame files in it.
C24_PollerCountsOnce ==
    \A b \in Slots :
      /\ ghost.polled[b] = ghost.seen[b]
      /\ poller[b].pc \in {"off", "check", "done"} =>
           ghost.polled[b] = poller[b].last_count
      /\ poller[b].pc \in {"upd_acquire", "upd_write"} =>
           ghost.polled[b] = poller[b].last_count + poller[b].delta
      /\ (fs[b].processed_dir \/ fs[b].reassembly_dir) =>
           ghost.polled[b] <= fs[b].frames

\* the engine failed once, leaving a frame, and succeeded on a retry; the
\* poller has ended, having reported each of the two frames once
C24_Witness ==
    \E b \in Batches :
      /\ worker[b].attempt >= 1
      /\ worker[b].success
      /\ worker[b].pc = "after_upscale"
      /\ poller[b].pc = "done"
      /\ fs[b].frames = 2
      /\ ghost.polled[b] = 2

\* ----------------------------------------------------------------------- C25
\* the future of batch b was yielded by as_completed and its round of the
\* loop is over
RoundOver(b) ==
    /\ \E i \in 1 .. Len(collected) : collected[i] = b
    /\ ~(mainPc = "count" /\ collected[Len(collected)] = b)

\* C25: a batch whose worker raised keeps a None slot that no completion
\* wrote and is never counted; a batch whose worker returned is counted
\* exactly once, in the round that collects its future; the counter is the
\* number of batches counted, never above the batch count, and once
\* as_completed is exhausted it is the number of workers that returned.
C25_CountsReturnedOnly ==
    /\ \A b \in Slots :
         /\ worker[b].result = "raised" =>
              /\ segment_files[b] = "None"
              /\ ghost.slot_writes[b] = 0
              /\ ghost.counted[b] = 0
         /\ ghost.counted[b] =
              (IF WorkerReturned(b) /\ RoundOver(b) THEN 1 ELSE 0)
    /\ batches_completed = SumTo(ghost.counted, MaxBatches - 1)
    /\ batches_completed <= num_batches
    /\ progress_done =>
         batches_completed = Cardinality({b \in Batches : WorkerReturned(b)})

\* of two batches one worker raised and the other returned: the counter is 1
\* when the reporter is stopped
C25_Witness ==
    /\ progress_done
    /\ num_batches = 2
    /\ batches_completed = 1
    /\ \E b \in Batches :
         /\ worker[b].result = "raised"
         /\ segment_files[b] = "None"

\* ----------------------------------------------------------------------- C26
\* the file the batches extract their frames from is there
InputExists == Exists(job, job.converted_video)

\* C26: while a batch worker of the job has not ended the file the batches
\* read exists, and every extraction ends with the file still there; the
\* converted file is removed only by a step taken when every worker has
\* ended, and only when it is not the source file, which always exists.
C26_ConvertedRemovedLast ==
    /\ []((\E b \in Batches : ~WorkerEnded(b)) => InputExists)
    /\ [](job.source_exists)
    /\ [](job.converted_video = "original" => ~job.converted_exists)
    /\ [][\A b \in Slots :
            (worker[b].pc = "extract" /\ worker'[b].pc # "extract") =>
              InputExists]_vars
    /\ [][(job.converted_exists /\ ~job'.converted_exists) =>
            /\ job.converted_video = "converted"
            /\ \A b \in Batches : WorkerEnded(b)
            /\ Len(collected) = num_batches]_vars

\* the converted file was removed after two batches had read it, and the
\* source file is still there
C26_Witness ==
    /\ job.converted_video = "converted"
    /\ ~job.converted_exists
    /\ job.source_exists
    /\ num_batches = 2
    /\ \A b \in Batches : worker[b].extracted = 2

====
